---- MODULE Spec2Model ----
(***************************************************************************)
(* Model of the multi-agent task solver: the in-memory job registry, the   *)
(* planner, the execution engine (executeJob), the SSE stream endpoint     *)
(* with its replay branch, and the submission endpoint of server.js.       *)
(*                                                                         *)
(* Strings the code inspects (the request text) are tuples of one-letter   *)
(* strings; strings the code only builds from a template (log lines,       *)
(* messages, summaries) are records of the template's holes.               *)
(***************************************************************************)
EXTENDS Integers, Sequences, FiniteSets, TLC

\* ------------------------------------------------------------------ bounds
\* Number of GET /api/stream requests the environment makes.
MaxStreams == 2
\* Number of POST /api/submit requests the environment makes.
MaxSubmits == 2
\* Number of distinct job identities (nanoid values, :jobId path values).
NumJobIds == 2

JobIds == 1..NumJobIds
\* jobs.get(id) === undefined
NoJob == 0
NoSource == 0
NoStream == 0

VARIABLES
  jobs,        \* the jobs Map: job id -> index of the invocation whose job object is stored, or NoJob
  streams,     \* one `res` per GET /api/stream request: [jobId, events, ended, closed]
  execs,       \* the executeJob invocation of each request (pc = "none" for a replay)
  allocated,   \* the job ids nanoid() has returned
  submits,     \* the POST /api/submit exchanges so far: [request, code, jobId]
  sources,     \* the EventSource objects the page has created (main.js)
  evtSource    \* main.js: the page's variable evtSource, NoSource for null

vars == <<jobs, streams, execs, allocated, submits, sources, evtSource>>

\* ------------------------------------------------------------------ strings
UpperToLower ==
  "A" :> "a" @@ "B" :> "b" @@ "C" :> "c" @@ "D" :> "d" @@ "E" :> "e" @@ "F" :> "f" @@
  "G" :> "g" @@ "H" :> "h" @@ "I" :> "i" @@ "J" :> "j" @@ "K" :> "k" @@ "L" :> "l" @@
  "M" :> "m" @@ "N" :> "n" @@ "O" :> "o" @@ "P" :> "p" @@ "Q" :> "q" @@ "R" :> "r" @@
  "S" :> "s" @@ "T" :> "t" @@ "U" :> "u" @@ "V" :> "v" @@ "W" :> "w" @@ "X" :> "x" @@
  "Y" :> "y" @@ "Z" :> "z"

\* String.prototype.toLowerCase
ToLowerCase(s) ==
  [i \in 1..Len(s) |-> IF s[i] \in DOMAIN UpperToLower THEN UpperToLower[s[i]] ELSE s[i]]

\* String.prototype.includes
Includes(s, sub) ==
  \E i \in 0..(Len(s) - Len(sub)) : SubSeq(s, i + 1, i + Len(sub)) = sub

\* The default request text of the stream endpoint.
DefaultText ==
  <<"G", "e", "n", "e", "r", "a", "l", " ", "b", "u", "s", "i", "n", "e", "s", "s", " ",
    "a", "n", "a", "l", "y", "s", "i", "s", " ", "r", "e", "q", "u", "e", "s", "t">>

\* ------------------------------------------------------------------ planner
baseAgents ==
  << [id |-> "planner",    name |-> "Planner",    role |-> "Break down the request",          steps |-> 1],
     [id |-> "researcher", name |-> "Researcher", role |-> "Gather data and sources",         steps |-> 3],
     [id |-> "analyst",    name |-> "Analyst",    role |-> "Analyze trends and insights",     steps |-> 3],
     [id |-> "visualizer", name |-> "Visualizer", role |-> "Create charts/tables",            steps |-> 2],
     [id |-> "editor",     name |-> "Editor",     role |-> "Compose final structured report", steps |-> 2] >>

engineerAgent ==
  [id |-> "engineer", name |-> "Engineer", role |-> "Prototype or integrate APIs", steps |-> 2]

financeAgent ==
  [id |-> "finance", name |-> "Finance SME", role |-> "Validate financial logic", steps |-> 2]

\* Array.prototype.splice(start, 0, item)
Splice(arr, start, item) ==
  SubSeq(arr, 1, start) \o <<item>> \o SubSeq(arr, start + 1, Len(arr))

\* Array.prototype.unshift(item)
Unshift(arr, item) == <<item>> \o arr

\* The planner with the front insertion done before the interior one.
planAgentsUnshiftFirst(requestText) ==
  LET lower == ToLowerCase(requestText)
      agents1 == IF Includes(lower, <<"f", "i", "n", "a", "n", "c", "i", "a", "l">>)
                    \/ Includes(lower, <<"q", "u", "a", "r", "t", "e", "r">>)
                 THEN Unshift(baseAgents, financeAgent)
                 ELSE baseAgents
  IN IF Includes(lower, <<"c", "o", "d", "e">>) \/ Includes(lower, <<"a", "p", "i">>)
     THEN Splice(agents1, 2, engineerAgent)
     ELSE agents1

planAgents(requestText) ==
  LET lower == ToLowerCase(requestText)
      agents1 == IF Includes(lower, <<"c", "o", "d", "e">>) \/ Includes(lower, <<"a", "p", "i">>)
                 THEN Splice(baseAgents, 2, engineerAgent)
                 ELSE baseAgents
  IN IF Includes(lower, <<"f", "i", "n", "a", "n", "c", "i", "a", "l">>)
        \/ Includes(lower, <<"q", "u", "a", "r", "t", "e", "r">>)
     THEN Unshift(agents1, financeAgent)
     ELSE agents1


\* ------------------------------------------------------------------ numbers
\* A JavaScript number, in tenths (v = 5 is 0.5), or NaN.
Num(v) == [nan |-> FALSE, v |-> v]
NaN == [nan |-> TRUE, v |-> 0]

\* Math.min / Math.max: NaN if either argument is NaN.
MathMin(a, b) == IF a.nan \/ b.nan THEN NaN ELSE IF a.v <= b.v THEN a ELSE b
MathMax(a, b) == IF a.nan \/ b.nan THEN NaN ELSE IF a.v >= b.v THEN a ELSE b

\* a < b on numbers: false when either side is NaN.
LessThan(a, b) == ~a.nan /\ ~b.nan /\ a.v < b.v

\* Values of the failRate query parameter: absent (not a string) or a string.
FailRateQueries == {"absent", "0", "1", "0.5", "2", "-1", "abc"}

\* Number(string) on the strings above.
Number(str) ==
  CASE str = "0" -> Num(0)
    [] str = "1" -> Num(10)
    [] str = "0.5" -> Num(5)
    [] str = "2" -> Num(20)
    [] str = "-1" -> Num(-10)
    [] OTHER -> NaN

\* typeof failRate === 'string' ? Math.max(0, Math.min(1, Number(failRate))) : 0
ClampFailRate(failRate) ==
  IF failRate # "absent" THEN MathMax(Num(0), MathMin(Num(10), Number(failRate))) ELSE Num(0)

\* Values Math.random() can return, in [0, 1).
RandomDraws == {Num(0), Num(9)}

\* The failure draw with <= for <: a draw of 0 fails a job of failure probability 0.
FailureDrawnLessOrEqual(random, failRate) == LessThan(random, failRate) \/ random = failRate

\* The failure draw with the comparison reversed.
FailureDrawnGreater(random, failRate) == LessThan(failRate, random)

\* Math.random() < failRate
FailureDrawn(random, failRate) == LessThan(random, failRate)

\* The progress with the rounding applied before the scaling:
\* Math.round(step / totalSteps) * 100.
ProgressRoundedRatio(step, totalSteps) == ((2 * step + totalSteps) \div (2 * totalSteps)) * 100

\* Math.round((step / totalSteps) * 100), for positive arguments
Progress(step, totalSteps) == (200 * step + totalSteps) \div (2 * totalSteps)

\* ------------------------------------------------------------------ events
\* sseWrite(res, event, data): the event is appended to what was written on res.
sseWrite(res, event, data) ==
  [res EXCEPT !.events = Append(@, [event |-> event, data |-> data])]

\* res.end()
End(res) == [res EXCEPT !.ended = TRUE]

EventNames(events) == [i \in 1..Len(events) |-> events[i].event]

\* ------------------------------------------------------------------ engine
\* The state of one GET request being served: its response and, for a live
\* run, the locals of its executeJob invocation (job is the object the
\* invocation created; the registry holds a reference to it).
NoExec(jobId) ==
  [pc |-> "none", job |-> [id |-> jobId, status |-> "none", createdAt |-> 0, agents |-> <<>>, result |-> <<>>],
   requestText |-> <<>>, agents |-> <<>>, failRate |-> Num(0), agent |-> 0, step |-> 0]

\* closed: the subscriber has closed the transport of the response.
NewRes(jobId) == [jobId |-> jobId, events |-> <<>>, ended |-> FALSE, closed |-> FALSE]

\* A context is the pair the engine's straight-line code works on.
Ctx(res, exec) == [res |-> res, exec |-> exec]

\* Lines 57-59: a new AgentRun is pushed and announced; the loop then
\* suspends at the first step's delay (every planned agent has steps >= 1).
StartAgent(c, k) ==
  LET agent == c.exec.agents[k]
      agentRun == [id |-> agent.id, name |-> agent.name, role |-> agent.role,
                   status |-> "running", progress |-> 0, logs |-> <<>>, output |-> <<>>]
      pushed == [c.exec EXCEPT !.job.agents = Append(@, agentRun), !.agent = k, !.step = 1, !.pc = "await"]
  IN Ctx(sseWrite(c.res, "agent-start", [agent |-> agentRun]), pushed)

\* executeJob creating its job record with status 'pending'.
ExecuteJobBeginPending(jobId, requestText, res, failRate, now) ==
  LET agents == planAgents(requestText)
      job == [id |-> jobId, status |-> "pending", createdAt |-> now, agents |-> <<>>, result |-> <<>>]
      exec == [pc |-> "await", job |-> job, requestText |-> requestText, agents |-> agents,
               failRate |-> failRate, agent |-> 0, step |-> 0]
      r1 == sseWrite(res, "job-start", [jobId |-> jobId, createdAt |-> now])
      r2 == sseWrite(r1, "plan", [agents |-> agents])
  IN StartAgent(Ctx(r2, exec), 1)

\* Lines 46-53 and the first pass of the loop head: executeJob up to its first await.
ExecuteJobBegin(jobId, requestText, res, failRate, now) ==
  LET agents == planAgents(requestText)
      job == [id |-> jobId, status |-> "running", createdAt |-> now, agents |-> <<>>, result |-> <<>>]
      exec == [pc |-> "await", job |-> job, requestText |-> requestText, agents |-> agents,
               failRate |-> failRate, agent |-> 0, step |-> 0]
      r1 == sseWrite(res, "job-start", [jobId |-> jobId, createdAt |-> now])
      r2 == sseWrite(r1, "plan", [agents |-> agents])
  IN StartAgent(Ctx(r2, exec), 1)

\* The failing step with the progress of the failing step recorded first.
FailStepRecordsProgress(c) ==
  LET k == c.exec.agent
      agent == c.exec.agents[k]
      message == [name |-> agent.name, step |-> c.exec.step]
      failed == [c.exec EXCEPT !.job.agents[k].status = "failed", !.job.status = "error", !.pc = "done",
                               !.job.agents[k].progress = Progress(c.exec.step, agent.steps)]
  IN Ctx(End(sseWrite(c.res, "job-error", [message |-> message, agentId |-> agent.id])), failed)

\* The failing step without the res.end() of line 71.
FailStepNoEnd(c) ==
  LET k == c.exec.agent
      agent == c.exec.agents[k]
      message == [name |-> agent.name, step |-> c.exec.step]
      failed == [c.exec EXCEPT !.job.agents[k].status = "failed", !.job.status = "error", !.pc = "done"]
  IN Ctx(sseWrite(c.res, "job-error", [message |-> message, agentId |-> agent.id]), failed)

\* Lines 67-71: the failing step.
FailStep(c) ==
  LET k == c.exec.agent
      agent == c.exec.agents[k]
      message == [name |-> agent.name, step |-> c.exec.step]
      failed == [c.exec EXCEPT !.job.agents[k].status = "failed", !.job.status = "error", !.pc = "done"]
  IN Ctx(End(sseWrite(c.res, "job-error", [message |-> message, agentId |-> agent.id])), failed)

\* Lines 73-77: a successful step.
ProgressStep(c) ==
  LET k == c.exec.agent
      agent == c.exec.agents[k]
      step == c.exec.step
      totalSteps == agent.steps
      progress == Progress(step, totalSteps)
      log == [name |-> agent.name, step |-> step, totalSteps |-> totalSteps]
      updated == [c.exec EXCEPT !.job.agents[k].progress = progress,
                                !.job.agents[k].logs = Append(@, log),
                                !.step = step + 1]
  IN Ctx(sseWrite(c.res, "agent-progress", [id |-> agent.id, progress |-> progress, log |-> log]), updated)

\* The agent's output attached without the status update of line 82.
CompleteAgentNoStatus(c) ==
  LET k == c.exec.agent
      agent == c.exec.agents[k]
      output == [summary |-> [name |-> agent.name, role |-> agent.role]]
      done == [c.exec EXCEPT !.job.agents[k].output = <<output>>]
  IN Ctx(sseWrite(c.res, "agent-complete", [id |-> agent.id, output |-> <<output>>]), done)

\* Lines 81-84: the agent's simulated output.
CompleteAgent(c) ==
  LET k == c.exec.agent
      agent == c.exec.agents[k]
      output == [summary |-> [name |-> agent.name, role |-> agent.role]]
      done == [c.exec EXCEPT !.job.agents[k].status = "completed", !.job.agents[k].output = <<output>>]
  IN Ctx(sseWrite(c.res, "agent-complete", [id |-> agent.id, output |-> <<output>>]), done)

\* a.output?.summary: undefined (joined as the empty string) when there is no output
SummaryLine(a) == IF a.output = <<>> THEN [name |-> "", role |-> ""] ELSE a.output[1].summary

\* The aggregated result with the summary lines in reverse order.
FinalResultReversed(job, requestText) ==
  [title |-> "Task Result",
   request |-> requestText,
   synthesizedSummary |-> [i \in 1..Len(job.agents) |-> SummaryLine(job.agents[Len(job.agents) + 1 - i])],
   artifacts |-> <<"chart", "table">>]

\* Lines 88-100: the aggregated result; synthesizedSummary is the list of joined lines.
FinalResult(job, requestText) ==
  [title |-> "Task Result",
   request |-> requestText,
   synthesizedSummary |-> [i \in 1..Len(job.agents) |-> SummaryLine(job.agents[i])],
   artifacts |-> <<"chart", "table">>]

\* Lines 102-105.
CompleteJob(c) ==
  LET final == FinalResult(c.exec.job, c.exec.requestText)
      done == [c.exec EXCEPT !.job.status = "completed", !.job.result = <<final>>, !.pc = "done"]
  IN Ctx(End(sseWrite(c.res, "job-complete", [jobId |-> c.exec.job.id, result |-> <<final>>])), done)

\* The step loop with step < totalSteps for step <= totalSteps.
ExecuteJobResumeOffByOne(c, random) ==
  IF FailureDrawn(random, c.exec.failRate)
  THEN FailStep(c)
  ELSE LET p == ProgressStep(c)
           k == c.exec.agent
       IN IF p.exec.step < c.exec.agents[k].steps
          THEN p
          ELSE LET a == CompleteAgent(p)
               IN IF k < Len(c.exec.agents) THEN StartAgent(a, k + 1) ELSE CompleteJob(a)

\* Lines 66-105 from the point where the delay of line 64 resolves, up to
\* the next delay or the return, random being the value of the failure draw.
ExecuteJobResume(c, random) ==
  IF FailureDrawn(random, c.exec.failRate)
  THEN FailStep(c)
  ELSE LET p == ProgressStep(c)
           k == c.exec.agent
       IN IF p.exec.step <= c.exec.agents[k].steps
          THEN p
          ELSE LET a == CompleteAgent(p)
               IN IF k < Len(c.exec.agents) THEN StartAgent(a, k + 1) ELSE CompleteJob(a)


\* ------------------------------------------------------------------ registry
\* jobs.get(jobId) is defined
Has(jobId) == jobs[jobId] # NoJob

\* jobs.get(jobId), for a job id the Map has
Get(jobId) == execs[jobs[jobId]].job

\* ------------------------------------------------------------------ replay
\* a.steps || 1: an AgentRun carries no steps field
StepsOrOne(a) == IF "steps" \in DOMAIN a /\ a.steps # 0 THEN a.steps ELSE 1

\* Line 130: the plan payload rebuilt from the stored AgentRuns.
ReplayPlan(existing) ==
  [i \in 1..Len(existing.agents) |->
     [id |-> existing.agents[i].id, name |-> existing.agents[i].name,
      role |-> existing.agents[i].role, steps |-> StepsOrOne(existing.agents[i])]]

\* The replay of one AgentRun without its agent-progress event.
ReplayAgentNoProgress(res, a) ==
  LET r1 == sseWrite(res, "agent-start", [agent |-> [id |-> a.id, name |-> a.name, role |-> a.role]])
  IN sseWrite(r1, "agent-complete", [id |-> a.id, output |-> a.output])

\* Lines 132-134: the three events replayed for one stored AgentRun.
ReplayAgent(res, a) ==
  LET r1 == sseWrite(res, "agent-start", [agent |-> [id |-> a.id, name |-> a.name, role |-> a.role]])
      r2 == sseWrite(r1, "agent-progress", [id |-> a.id, progress |-> 100, log |-> [name |-> a.name]])
  IN sseWrite(r2, "agent-complete", [id |-> a.id, output |-> a.output])

\* Lines 131-135: the loop over existing.agents, from index k on.
RECURSIVE ReplayAgents(_, _, _)
ReplayAgents(res, agents, k) ==
  IF k > Len(agents) THEN res ELSE ReplayAgents(ReplayAgent(res, agents[k]), agents, k + 1)

\* Lines 129-137: the replay branch.
Replay(res, jobId, existing) ==
  LET r1 == sseWrite(res, "job-start", [jobId |-> jobId, createdAt |-> existing.createdAt])
      r2 == sseWrite(r1, "plan", [agents |-> ReplayPlan(existing)])
      r3 == ReplayAgents(r2, existing.agents, 1)
  IN End(sseWrite(r3, "job-complete", [jobId |-> jobId, result |-> existing.result]))

\* ------------------------------------------------------------------ inputs
DraftAPI == <<"D", "r", "a", "f", "t", " ", "A", "P", "I">>
QuarterCode == <<"q", "u", "a", "r", "t", "e", "r", " ", "c", "o", "d", "e">>

\* Values of the q query parameter: <<>> when it is not a string, <<text>> when it is.
QValues == {<<>>, <<DraftAPI>>, <<QuarterCode>>}

\* Values of req.body.request.
Undefined == [type |-> "undefined", text |-> <<>>, num |-> 0]
NumberValue(n) == [type |-> "number", text |-> <<>>, num |-> n]
StringValue(t) == [type |-> "string", text |-> t, num |-> 0]
RequestValues == {Undefined, NumberValue(0), NumberValue(5), StringValue(<<>>), StringValue(DraftAPI)}

\* typeof v
TypeOf(v) == v.type

\* !v
Falsy(v) ==
  CASE v.type = "string" -> v.text = <<>>
    [] v.type = "number" -> v.num = 0
    [] OTHER -> TRUE

\* ------------------------------------------------------------------ actions
Init ==
  /\ jobs = [id \in JobIds |-> NoJob]
  /\ streams = <<>>
  /\ execs = <<>>
  /\ allocated = {}
  /\ submits = <<>>
  /\ sources = <<>>
  /\ evtSource = NoSource

\* The validation without the !request test.
RejectedNotString(request) == TypeOf(request) # "string"

\* Line 110: the validation of POST /api/submit.
Rejected(request) == Falsy(request) \/ TypeOf(request) # "string"

\* POST /api/submit (lines 108-115); nanoid() returns an identity not returned before.
Submit(request) ==
  /\ Len(submits) < MaxSubmits
  /\ IF Rejected(request)
     THEN /\ submits' = Append(submits, [request |-> request, code |-> 400, jobId |-> NoJob])
          /\ allocated' = allocated
     ELSE \E jobId \in JobIds \ allocated :
            /\ submits' = Append(submits, [request |-> request, code |-> 200, jobId |-> jobId])
            /\ allocated' = allocated \cup {jobId}
  /\ UNCHANGED <<jobs, streams, execs, sources, evtSource>>

\* The replay test against a status no job ever has.
IsReplayWrongStatus(jobId) == Has(jobId) /\ Get(jobId).status = "complete"

\* Line 128: the replay test.
IsReplay(jobId) == Has(jobId) /\ Get(jobId).status = "completed"

\* The stream endpoint storing every job record under the same key.
StreamOpenSharedKey(jobId, q, failRate) ==
  /\ Len(streams) < MaxStreams
  /\ LET s == Len(streams) + 1
         res == NewRes(jobId)
     IN IF IsReplay(jobId)
        THEN /\ streams' = Append(streams, Replay(res, jobId, Get(jobId)))
             /\ execs' = Append(execs, NoExec(jobId))
             /\ jobs' = jobs
        ELSE LET text == IF q # <<>> THEN q[1] ELSE DefaultText
                 c == ExecuteJobBegin(jobId, text, res, ClampFailRate(failRate), s)
             IN /\ streams' = Append(streams, c.res)
                /\ execs' = Append(execs, c.exec)
                /\ jobs' = [id \in JobIds |-> s]
  /\ UNCHANGED <<allocated, submits, sources, evtSource>>

\* GET /api/stream/:jobId (lines 117-147), up to the first await of executeJob.
\* Date.now() is the ordinal of the request.
\* executeJob throws on none of these inputs (requestText is always a
\* string), so the catch handler of lines 143-146 writes nothing here.
StreamHandler(jobId, q, failRate) ==
  /\ Len(streams) < MaxStreams
  /\ LET s == Len(streams) + 1
         res == NewRes(jobId)
     IN IF IsReplay(jobId)
        THEN /\ streams' = Append(streams, Replay(res, jobId, Get(jobId)))
             /\ execs' = Append(execs, NoExec(jobId))
             /\ jobs' = jobs
        ELSE LET text == IF q # <<>> THEN q[1] ELSE DefaultText
                 c == ExecuteJobBegin(jobId, text, res, ClampFailRate(failRate), s)
             IN /\ streams' = Append(streams, c.res)
                /\ execs' = Append(execs, c.exec)
                /\ jobs' = [jobs EXCEPT ![jobId] = s]

\* A GET /api/stream/:jobId request of any client.
StreamOpen(jobId, q, failRate) ==
  /\ StreamHandler(jobId, q, failRate)
  /\ UNCHANGED <<allocated, submits, sources, evtSource>>

\* The subscriber closes the transport of stream s (evtSource.close() in
\* main.js). The stream handler registers no 'close' listener, so nothing
\* but the transport changes; executeJob goes on calling res.write.
ClientClose(s) ==
  /\ ~streams[s].closed /\ ~streams[s].ended
  /\ streams' = [streams EXCEPT ![s].closed = TRUE]
  /\ UNCHANGED <<jobs, execs, allocated, submits, sources, evtSource>>

\* The delay resolving only while the subscriber is attached.
TimerFiresWhileAttached(s, random) ==
  /\ execs[s].pc = "await"
  /\ ~streams[s].closed
  /\ LET c == ExecuteJobResume(Ctx(streams[s], execs[s]), random)
     IN /\ streams' = [streams EXCEPT ![s] = c.res]
        /\ execs' = [execs EXCEPT ![s] = c.exec]
  /\ UNCHANGED <<jobs, allocated, submits, sources, evtSource>>

\* The delay of line 64 of invocation s resolves and executeJob runs on to
\* its next await or to its return.
\* The delays are random (500 to 1100 ms each), so the pending delays of
\* different invocations resolve in any order.
TimerFires(s, random) ==
  /\ execs[s].pc = "await"
  /\ LET c == ExecuteJobResume(Ctx(streams[s], execs[s]), random)
     IN /\ streams' = [streams EXCEPT ![s] = c.res]
        /\ execs' = [execs EXCEPT ![s] = c.exec]
  /\ UNCHANGED <<jobs, allocated, submits, sources, evtSource>>

\* The stream endpoint and the engine: any client may open a stream on any
\* job id, with any query, and the pending delays resolve in any order.
Next ==
  \/ \E jobId \in JobIds, q \in QValues, failRate \in FailRateQueries : StreamOpen(jobId, q, failRate)
  \/ \E s \in 1..Len(streams), random \in RandomDraws : TimerFires(s, random)

Spec == Init /\ [][Next]_vars

\* The front door together with the stream endpoint and the engine, the
\* streams being opened without a q and with a failRate of this set.
FrontDoorFailRates == {"absent", "1"}

NextFrontDoor ==
  \/ \E request \in RequestValues : Submit(request)
  \/ \E jobId \in JobIds, failRate \in FrontDoorFailRates : StreamOpen(jobId, <<>>, failRate)
  \/ \E s \in 1..Len(streams), random \in RandomDraws : TimerFires(s, random)

SpecFrontDoor == Init /\ [][NextFrontDoor]_vars


\* Lines 143-146: the handler of a rejected executeJob promise. The error's
\* message is written as a job-error event and the response is ended; the
\* job object of the invocation is not touched.
CatchHandler(res) == End(sseWrite(res, "job-error", [message |-> [thrown |-> TRUE]]))

\* An exception is thrown in invocation s when it resumes from its delay
\* (README: "Temporarily throw in server.js during execution"): the
\* invocation ends there and its promise rejects into the handler of
\* lines 143-146.
ExecuteJobThrows(s) ==
  /\ execs[s].pc = "await"
  /\ streams' = [streams EXCEPT ![s] = CatchHandler(streams[s])]
  /\ execs' = [execs EXCEPT ![s].pc = "thrown"]
  /\ UNCHANGED <<jobs, allocated, submits, sources, evtSource>>

\* The stream endpoint and the engine with exceptions thrown inside
\* executeJob, the streams being opened without a q.
FaultFailRates == {"absent", "0.5"}

NextFault ==
  \/ \E jobId \in JobIds, failRate \in FaultFailRates : StreamOpen(jobId, <<>>, failRate)
  \/ \E s \in 1..Len(streams), random \in RandomDraws : TimerFires(s, random)
  \/ \E s \in 1..Len(streams) : ExecuteJobThrows(s)

SpecFault == Init /\ [][NextFault]_vars

\* The stream endpoint and the engine with subscribers that may close their
\* transport at any time, the streams being opened without a q and with a
\* failRate of this set, under which
\* every step may fail or pass. A timer that is set fires: each pending delay
\* eventually resolves.
CloseFailRates == {"0.5"}

NextClose ==
  \/ \E jobId \in JobIds, failRate \in CloseFailRates : StreamOpen(jobId, <<>>, failRate)
  \/ \E s \in 1..Len(streams), random \in RandomDraws : TimerFires(s, random)
  \/ \E s \in 1..Len(streams) : ClientClose(s)

SpecClose ==
  /\ Init /\ [][NextClose]_vars
  /\ \A s \in 1..MaxStreams :
       WF_vars(s <= Len(streams) /\ \E random \in RandomDraws : TimerFires(s, random))

\* ------------------------------------------------------------------ the page (main.js)
\* new EventSource(url) of line 91: the object starts connecting; stream is
\* the response it is reading and delivered the number of that response's
\* events it has dispatched to the listeners of lines 93-133.
NewEventSource(jobId, query, submit) ==
  [jobId |-> jobId, query |-> query, submit |-> submit,
   readyState |-> "connecting", stream |-> NoStream, delivered |-> 0]

\* source.close(), written `if (evtSource) evtSource.close()` where the
\* variable may be null.
Close(srcs, src) ==
  IF src = NoSource THEN srcs ELSE [srcs EXCEPT ![src].readyState = "closed"]

\* connectSSE without the close of line 88.
connectSSEKeepsPrevious(i) ==
  /\ submits[i].code = 200
  /\ \A src \in 1..Len(sources) : sources[src].submit # i
  /\ sources' = Append(sources, NewEventSource(submits[i].jobId, submits[i].request.text, i))
  /\ evtSource' = Len(sources) + 1
  /\ UNCHANGED <<jobs, streams, execs, allocated, submits>>

\* Lines 141-159 and 87-91: the fetch of the form's submit handler has
\* answered exchange i with a jobId and the handler calls connectSSE, which
\* closes the EventSource the variable holds and stores a new one in it.
connectSSE(i) ==
  /\ submits[i].code = 200
  /\ \A src \in 1..Len(sources) : sources[src].submit # i
  /\ sources' = Append(Close(sources, evtSource),
                       NewEventSource(submits[i].jobId, submits[i].request.text, i))
  /\ evtSource' = Len(sources) + 1
  /\ UNCHANGED <<jobs, streams, execs, allocated, submits>>

\* The GET of a connecting EventSource reaches the server: the url of
\* lines 89-90 carries q and no failRate.
SourceRequest(src) ==
  /\ sources[src].readyState = "connecting"
  /\ StreamHandler(sources[src].jobId, <<sources[src].query>>, "absent")
  /\ sources' = [sources EXCEPT ![src].readyState = "open",
                                ![src].stream = Len(streams) + 1,
                                ![src].delivered = 0]
  /\ UNCHANGED <<allocated, submits, evtSource>>

\* An open EventSource dispatches the next event of its response to its
\* listener; the listeners of job-complete and job-error (lines 122-133)
\* end with evtSource.close(), on whatever the variable holds by then.
Dispatch(src) ==
  /\ sources[src].readyState = "open"
  /\ sources[src].delivered < Len(streams[sources[src].stream].events)
  /\ LET e == streams[sources[src].stream].events[sources[src].delivered + 1]
         advanced == [sources EXCEPT ![src].delivered = @ + 1]
     IN sources' = IF e.event \in {"job-complete", "job-error"}
                   THEN Close(advanced, evtSource)
                   ELSE advanced
  /\ UNCHANGED <<jobs, streams, execs, allocated, submits, evtSource>>

\* Lines 135-138: the connection of an open EventSource fails; onerror runs
\* and the EventSource connects again by itself. What the response had not
\* delivered is lost. (What the server does on a transport that is gone is
\* ClientClose: nothing.)
ConnectionLost(src) ==
  /\ sources[src].readyState = "open"
  /\ streams' = streams
  /\ sources' = [sources EXCEPT ![src].readyState = "connecting",
                                ![src].stream = NoStream,
                                ![src].delivered = 0]
  /\ UNCHANGED <<jobs, execs, allocated, submits, evtSource>>

\* Lines 161-165: the reset button.
ResetClick ==
  /\ evtSource # NoSource /\ sources[evtSource].readyState # "closed"
  /\ sources' = Close(sources, evtSource)
  /\ UNCHANGED <<jobs, streams, execs, allocated, submits, evtSource>>

\* The page against the server: the form posts its (trimmed, non-empty)
\* text, the page connects, the engine runs and may throw in the first step
\* of an invocation (the page sends no failRate, so a job-error event
\* reaches it from the handler of lines 143-146 only).
FormTexts == {<<"P", "l", "a", "n">>}

ThrowsInFirstStep(s) == execs[s].agent = 1 /\ execs[s].step = 1 /\ ExecuteJobThrows(s)

NextPage ==
  \/ \E text \in FormTexts : Submit(StringValue(text))
  \/ \E i \in 1..Len(submits) : connectSSE(i)
  \/ \E src \in 1..Len(sources) : SourceRequest(src)
  \/ \E src \in 1..Len(sources) : Dispatch(src)
  \/ \E src \in 1..Len(sources) : ConnectionLost(src)
  \/ ResetClick
  \/ \E s \in 1..Len(streams), random \in RandomDraws : TimerFires(s, random)
  \/ \E s \in 1..Len(streams) : ThrowsInFirstStep(s)

SpecPage == Init /\ [][NextPage]_vars

\* ------------------------------------------------------------------ planner inputs
\* Words of request texts, each with whether its lower-cased letters contain
\* 'code' or 'api' (eng) and 'financial' or 'quarter' (fin).
Vocabulary ==
  { [chars |-> <<"c", "o", "d", "e">>, eng |-> TRUE, fin |-> FALSE],
    [chars |-> <<"A", "P", "I">>, eng |-> TRUE, fin |-> FALSE],
    [chars |-> <<"r", "a", "p", "i", "d">>, eng |-> TRUE, fin |-> FALSE],
    [chars |-> <<"c", "o", "d">>, eng |-> FALSE, fin |-> FALSE],
    [chars |-> <<"F", "i", "n", "a", "n", "c", "i", "a", "l">>, eng |-> FALSE, fin |-> TRUE],
    [chars |-> <<"q", "u", "a", "r", "t", "e", "r", "s">>, eng |-> FALSE, fin |-> TRUE],
    [chars |-> <<"q", "u", "a", "r", "t">>, eng |-> FALSE, fin |-> FALSE] }

\* Number of words of a request text.
MaxWords == 2

WordSeqs == UNION {[1..n -> Vocabulary] : n \in 0..MaxWords}

\* The words joined by single spaces.
RECURSIVE Join(_)
Join(ws) ==
  IF ws = <<>> THEN <<>>
  ELSE IF Len(ws) = 1 THEN ws[1].chars
  ELSE ws[1].chars \o <<" ">> \o Join(Tail(ws))

\* The planner applied by the stream endpoint to the texts of the
\* vocabulary: one stream, opened with such a text as q and run to its end.
NextPlanner ==
  \/ \E jobId \in JobIds, ws \in WordSeqs :
       streams = <<>> /\ StreamOpen(jobId, <<Join(ws)>>, "absent")
  \/ \E s \in 1..Len(streams), random \in RandomDraws : TimerFires(s, random)

SpecPlanner == Init /\ [][NextPlanner]_vars

\* ------------------------------------------------------------------ helpers of the properties
Streams == 1..Len(streams)
Live(s) == execs[s].pc # "none"
IsReplayStream(s) == execs[s].pc = "none"

TerminalEvents == {"job-complete", "job-error"}
TerminalStatus == {"completed", "error"}

\* Positions of the events of the given names.
Positions(events, names) == {i \in 1..Len(events) : events[i].event \in names}
Count(events, name) == Cardinality(Positions(events, {name}))

IsPrefix(a, b) == Len(a) <= Len(b) /\ SubSeq(b, 1, Len(a)) = a

\* What was written on stream s before this step (nothing, if the step opens it).
EventsBefore(s) == IF s <= Len(streams) THEN streams[s].events ELSE <<>>

\* At most one terminal event, in last position, and the stream is ended
\* exactly when it carries one.
TerminalIsLast(res) ==
  /\ Cardinality(Positions(res.events, TerminalEvents)) <= 1
  /\ \A i \in Positions(res.events, TerminalEvents) : i = Len(res.events)
  /\ res.ended <=> Positions(res.events, TerminalEvents) # {}

\* ------------------------------------------------------------------ C1
\* C1 as stated: on every stream (live or replay) there is one terminal
\* event, it is the last event and the stream is ended with it, and no event
\* is written on a stream once the registry status of its job is
\* 'completed' or 'error'.
C1_NoEventOnceTerminalStatus ==
  [][\A s \in 1..Len(streams') :
       /\ TerminalIsLast(streams'[s])
       /\ streams'[s].events # EventsBefore(s)
            => ~(Has(streams'[s].jobId) /\ Get(streams'[s].jobId).status \in TerminalStatus)]_vars

\* C1 (amended): on every stream, live or replay, at most one terminal
\* event is written, it is the last event and the stream is ended in the
\* step that writes it (an ended stream carries exactly one); events are
\* only appended, never after the stream's terminal event, and a live
\* invocation writes none once the job record it created is 'completed' or
\* 'error'. A replay writes all its events while the job is 'completed'.
C1_TerminalEventIsLast ==
  [][\A s \in 1..Len(streams') :
       /\ TerminalIsLast(streams'[s])
       /\ IsPrefix(EventsBefore(s), streams'[s].events)
       /\ (s <= Len(streams) /\ streams'[s].events # streams[s].events)
            => /\ ~streams[s].ended
               /\ Positions(streams[s].events, TerminalEvents) = {}
               /\ execs[s].job.status = "running"
       /\ (Live(s)' /\ execs'[s].job.status \in TerminalStatus) => streams'[s].ended]_vars

\* A live stream ended by job-complete and a replay of it, both ended.
C1_Witness ==
  \E s, t \in Streams :
    /\ Live(s) /\ streams[s].ended /\ streams[s].events[Len(streams[s].events)].event = "job-complete"
    /\ IsReplayStream(t) /\ streams[t].ended /\ streams[t].events[Len(streams[t].events)].event = "job-complete"


\* ------------------------------------------------------------------ C2
\* C2: an invocation of executeJob with failure probability 0 never writes
\* job-error and writes job-complete at most once; when it has ended it has
\* written job-complete exactly once and the job record it built holds one
\* AgentRun per planned agent, each 'completed' with progress 100.
C2_NoFailureRunCompletes ==
  \A s \in Streams :
    (Live(s) /\ execs[s].failRate = Num(0)) =>
      /\ Count(streams[s].events, "job-error") = 0
      /\ Count(streams[s].events, "job-complete") <= 1
      /\ execs[s].pc = "done" =>
           /\ Count(streams[s].events, "job-complete") = 1
           /\ streams[s].ended
           /\ execs[s].job.status = "completed"
           /\ Len(execs[s].job.agents) = Len(execs[s].agents)
           /\ \A k \in 1..Len(execs[s].agents) :
                /\ execs[s].job.agents[k].id = execs[s].agents[k].id
                /\ execs[s].job.agents[k].status = "completed"
                /\ execs[s].job.agents[k].progress = 100

\* An invocation with failure probability 0 has ended.
C2_Witness ==
  \E s \in Streams : Live(s) /\ execs[s].failRate = Num(0) /\ execs[s].pc = "done"

\* ------------------------------------------------------------------ C3
FailFastNames == <<"job-start", "plan", "agent-start", "job-error">>

\* C3: an invocation of executeJob with failure probability 1 writes a
\* prefix of job-start, plan, agent-start, job-error (so no agent-complete
\* and no job-complete); when it has ended it has written exactly these
\* four, the agent-start and the job-error name the first planned agent,
\* the job record is 'error' and holds that one AgentRun, 'failed'.
C3_CertainFailureStopsAtFirstAgent ==
  \A s \in Streams :
    (Live(s) /\ execs[s].failRate = Num(10)) =>
      /\ IsPrefix(EventNames(streams[s].events), FailFastNames)
      /\ execs[s].pc = "done" =>
           /\ EventNames(streams[s].events) = FailFastNames
           /\ streams[s].events[3].data.agent.id = execs[s].agents[1].id
           /\ streams[s].events[4].data.agentId = execs[s].agents[1].id
           /\ execs[s].job.status = "error"
           /\ Len(execs[s].job.agents) = 1
           /\ execs[s].job.agents[1].id = execs[s].agents[1].id
           /\ execs[s].job.agents[1].status = "failed"

\* An invocation with failure probability 1 has ended.
C3_Witness ==
  \E s \in Streams : Live(s) /\ execs[s].failRate = Num(10) /\ execs[s].pc = "done"

\* ------------------------------------------------------------------ C4
\* The agent an agent-level event or a job-error is about.
AgentOf(e) ==
  CASE e.event = "agent-start" -> e.data.agent.id
    [] e.event = "job-error" -> e.data.agentId
    [] OTHER -> e.data.id

\* Event i of a live stream continues the block grammar: the k-th
\* agent-start is for the k-th planned agent and follows the plan event or
\* the previous agent's agent-complete; agent-progress stays within the
\* block of the agent started last; agent-complete follows an
\* agent-progress of its agent; job-error follows an event of the names
\* beforeError of the agent it names.
ContinuesBlock(events, plan, i, beforeError) ==
  LET e == events[i]
      prev == events[i - 1]
      k == Cardinality({j \in 1..i : events[j].event = "agent-start"})
  IN CASE e.event = "agent-start" ->
            /\ k <= Len(plan) /\ AgentOf(e) = plan[k].id
            /\ IF k = 1 THEN prev.event = "plan"
               ELSE prev.event = "agent-complete" /\ AgentOf(prev) = plan[k - 1].id
       [] e.event = "agent-progress" ->
            /\ prev.event \in {"agent-start", "agent-progress"}
            /\ AgentOf(prev) = AgentOf(e)
       [] e.event = "agent-complete" ->
            /\ prev.event = "agent-progress"
            /\ AgentOf(prev) = AgentOf(e)
            /\ Cardinality({j \in 1..i : events[j].event = "agent-progress" /\ AgentOf(events[j]) = AgentOf(e)})
                 = plan[k].steps
       [] e.event = "job-error" ->
            /\ prev.event \in beforeError
            /\ AgentOf(prev) = AgentOf(e)
       [] e.event = "job-complete" ->
            /\ prev.event = "agent-complete"
            /\ k = Len(plan)
       [] OTHER -> FALSE

BlocksOk(beforeError) ==
  \A s \in Streams :
    Live(s) => \A i \in 3..Len(streams[s].events) :
                 ContinuesBlock(streams[s].events, execs[s].agents, i, beforeError)

\* C4 as stated: every started agent's block is one agent-start, then one
\* or more agent-progress, then agent-complete or the job-ending job-error.
C4_OneOrMoreProgress == BlocksOk({"agent-progress"})

\* C4 (amended): in plan order, every started agent's block is one
\* agent-start, then its agent-progress events, then exactly one of
\* agent-complete or the job-ending job-error: one agent-progress per step
\* (so one or more) before agent-complete, zero or more before job-error,
\* which follows the agent-start directly when the first step fails.
C4_AgentBlocks == BlocksOk({"agent-start", "agent-progress"})

\* A live stream ended by a job-error that directly follows an agent-start,
\* after an earlier agent's block ended with agent-complete.
C4_Witness ==
  \E s \in Streams :
    /\ Live(s) /\ streams[s].ended
    /\ LET n == Len(streams[s].events)
       IN /\ streams[s].events[n].event = "job-error"
          /\ streams[s].events[n - 1].event = "agent-start"
          /\ Count(streams[s].events, "agent-complete") >= 1


\* ------------------------------------------------------------------ C5
\* The agents of a plan, as (id, steps) pairs in order.
IdsAndSteps(agents) == [i \in 1..Len(agents) |-> <<agents[i].id, agents[i].steps>>]

\* job-start is the first event and plan the second, each written once.
StartsWithJobStartAndPlan(events) ==
  /\ Len(events) >= 2
  /\ Positions(events, {"job-start"}) = {1}
  /\ Positions(events, {"plan"}) = {2}

\* The invocation that ran the agents stream s is about: its own on a live
\* stream, the one whose job record is replayed on a replay.
RanBy(s) == IF Live(s) THEN s ELSE jobs[streams[s].jobId]

\* C5: on every stream, live or replay, job-start is the first event and
\* occurs once, plan is the second and occurs once (so before any
\* agent-start), and the plan event lists the agents that are run on a live
\* stream, or were run for the replayed job, in the same order and with the
\* same step counts.
C5_PlanMatchesAgentsRun ==
  \A s \in Streams :
    /\ StartsWithJobStartAndPlan(streams[s].events)
    /\ IdsAndSteps(streams[s].events[2].data.agents) = IdsAndSteps(execs[RanBy(s)].agents)

\* ------------------------------------------------------------------ C6
\* The live stream whose job record a replay stream replays.
LiveOf(s) == streams[jobs[streams[s].jobId]]

\* Runs of consecutive agent-progress names collapsed into one.
RECURSIVE CollapseProgress(_)
CollapseProgress(names) ==
  IF Len(names) <= 1 THEN names
  ELSE IF names[1] = "agent-progress" /\ names[2] = "agent-progress"
       THEN CollapseProgress(Tail(names))
       ELSE <<names[1]>> \o CollapseProgress(Tail(names))

\* C6 as stated: a replay writes the same sequence of event names as the
\* successful live run of the same plan did.
C6_ReplaySameNamesAsLive ==
  \A s \in Streams :
    IsReplayStream(s) => EventNames(streams[s].events) = EventNames(LiveOf(s).events)

\* C6 (amended): a replay writes the sequence of event names of the
\* successful live run of the same plan with each agent's agent-progress
\* events collapsed into a single one: job-start, plan, then agent-start,
\* agent-progress, agent-complete per agent in plan order, then
\* job-complete; that is the live sequence only when every agent has one
\* step, which no plan of the planner has.
C6_ReplayCollapsesProgress ==
  \A s \in Streams :
    IsReplayStream(s) =>
      /\ EventNames(streams[s].events) = CollapseProgress(EventNames(LiveOf(s).events))
      /\ Len(streams[s].events) = 3 * Len(execs[RanBy(s)].agents) + 3
      /\ Len(streams[s].events) < Len(LiveOf(s).events)

\* A completed job has been replayed.
C6_Witness ==
  \E s \in Streams : IsReplayStream(s) /\ streams[s].ended /\ LiveOf(s).ended

\* ------------------------------------------------------------------ C7
\* C7: once the record under a job id is 'completed' or 'error', no step
\* changes it.
C7_TerminalRecordImmutable ==
  [][\A id \in JobIds :
       (Has(id) /\ Get(id).status \in TerminalStatus) => (Has(id)' /\ Get(id)' = Get(id))]_vars

\* ------------------------------------------------------------------ C8
\* The invocations of executeJob on a job id that have started and not ended.
Active(id) == {s \in Streams : streams[s].jobId = id /\ execs[s].pc = "await"}

\* C8: at most one executeJob invocation is active per job id.
C8_SingleActiveInvocation == \A id \in JobIds : Cardinality(Active(id)) <= 1


\* ------------------------------------------------------------------ C9
\* The step is a POST /api/submit, whose exchange is LastSubmit'.
IsSubmitStep == Len(submits') > Len(submits)
LastSubmit == submits[Len(submits)]

\* The step is a GET /api/stream on job id id.
IsStreamOpenOn(id) == Len(streams') > Len(streams) /\ streams'[Len(streams')].jobId = id

\* The registry status of a job id.
StatusOf(id) == IF Has(id) THEN Get(id).status ELSE "absent"

\* C9 as stated: the registry status follows pending -> running, running
\* being entered only from pending and only by a stream open on that id;
\* a successful POST /api/submit registers the job under its
\* new id with status 'pending' and an empty AgentRun list, without
\* starting execution.
C9_SubmitRegistersPending ==
  [][/\ (IsSubmitStep /\ LastSubmit'.code = 200) =>
       /\ \E id \in JobIds :
            /\ id = LastSubmit'.jobId
            /\ StatusOf(id)' = "pending"
            /\ Get(id)'.agents = <<>>
       /\ execs' = execs
     /\ \A id \in JobIds :
          (StatusOf(id)' = "running" /\ StatusOf(id) # "running")
            => StatusOf(id) = "pending" /\ IsStreamOpenOn(id)]_vars

\* C9 (amended): every job's registry record follows absent -> running ->
\* {completed | error}, and no record is ever 'pending': a successful POST
\* /api/submit returns a new id without registering a record and without
\* starting execution; the record is created, with status 'running', only
\* when a stream is opened on that id; a 'completed' record is never
\* replaced, and a stream opened on an id whose record is 'running' or
\* 'error' replaces it by a new 'running' record.
C9_RecordCreatedRunningByStream ==
  [][/\ IsSubmitStep =>
          /\ jobs' = jobs /\ execs' = execs /\ streams' = streams
          /\ LastSubmit'.code = 200 =>
               /\ LastSubmit'.jobId \in JobIds \ allocated
               /\ allocated' = allocated \cup {LastSubmit'.jobId}
     /\ \A id \in JobIds :
          /\ StatusOf(id)' \in {"absent", "running", "completed", "error"}
          /\ StatusOf(id)' # StatusOf(id) =>
               <<StatusOf(id), StatusOf(id)'>> \in
                 {<<"absent", "running">>, <<"running", "completed">>,
                  <<"running", "error">>, <<"error", "running">>}
          /\ (StatusOf(id)' = "running" /\ (StatusOf(id) # "running" \/ jobs'[id] # jobs[id]))
               => IsStreamOpenOn(id) /\ Get(id)'.agents # <<>>
          /\ IsStreamOpenOn(id) => StatusOf(id)' = IF StatusOf(id) = "completed" THEN "completed" ELSE "running"
          /\ StatusOf(id) = "completed" => jobs'[id] = jobs[id]]_vars

\* An id returned by a successful POST has no record, while a stream has
\* replaced the 'error' record of another id by a 'running' one.
C9_Witness ==
  /\ \E i \in 1..Len(submits) : submits[i].code = 200 /\ ~Has(submits[i].jobId)
  /\ \E s, t \in Streams :
       /\ s < t /\ streams[s].jobId = streams[t].jobId
       /\ execs[s].job.status = "error" /\ execs[t].job.status = "running"

\* ------------------------------------------------------------------ C10
\* Nothing but the exchange itself changes.
SubmitFrame == jobs' = jobs /\ execs' = execs /\ streams' = streams

\* C10 as stated: a request that is missing or not a string is answered 400
\* and allocates no identity, leaving the registry and the executions
\* unchanged; a request that is a string is answered with a jobId.
C10_EveryStringAccepted ==
  [][IsSubmitStep =>
       IF TypeOf(LastSubmit'.request) # "string"
       THEN LastSubmit'.code = 400 /\ allocated' = allocated /\ SubmitFrame
       ELSE LastSubmit'.code = 200 /\ LastSubmit'.jobId \in JobIds]_vars

\* C10 (amended): a request that is missing, not a string or the empty
\* string is answered 400 and allocates no identity, leaving the registry
\* and the executions unchanged; a request that is a non-empty string is
\* answered with a jobId not returned before.
C10_NonEmptyStringAccepted ==
  [][IsSubmitStep =>
       IF TypeOf(LastSubmit'.request) # "string" \/ LastSubmit'.request.text = <<>>
       THEN /\ LastSubmit'.code = 400 /\ LastSubmit'.jobId = NoJob
            /\ allocated' = allocated /\ SubmitFrame
       ELSE /\ LastSubmit'.code = 200
            /\ LastSubmit'.jobId \in JobIds \ allocated
            /\ allocated' = allocated \cup {LastSubmit'.jobId}
            /\ SubmitFrame]_vars

\* The empty string was rejected and a non-empty string accepted while an
\* execution was suspended in a step delay.
C10_Witness ==
  /\ Len(submits) = 2
  /\ submits[1].request = StringValue(<<>>) /\ submits[1].code = 400
  /\ submits[2].code = 200
  /\ \E s \in Streams : execs[s].pc = "await" /\ execs[s].job.agents[1].progress > 0


\* ------------------------------------------------------------------ C11
\* The progress values of the agent-progress events of agent id, in order.
RECURSIVE ProgressValues(_, _)
ProgressValues(events, id) ==
  IF events = <<>> THEN <<>>
  ELSE LET e == events[Len(events)]
           before == ProgressValues(SubSeq(events, 1, Len(events) - 1), id)
       IN IF e.event = "agent-progress" /\ e.data.id = id
          THEN Append(before, e.data.progress)
          ELSE before

\* C11: on every live stream the progress values of an agent's successive
\* agent-progress events are integers of 0..100 that strictly increase,
\* the AgentRun stores the last of them (0 before the first), and when the
\* agent's agent-complete is written the last value is exactly 100.
C11_ProgressIncreasesTo100 ==
  \A s \in Streams :
    Live(s) => \A k \in 1..Len(execs[s].job.agents) :
      LET run == execs[s].job.agents[k]
          values == ProgressValues(streams[s].events, run.id)
          completed == \E i \in 1..Len(streams[s].events) :
                         /\ streams[s].events[i].event = "agent-complete"
                         /\ streams[s].events[i].data.id = run.id
      IN /\ \A i \in 1..Len(values) : values[i] \in 0..100
         /\ \A i \in 1..(Len(values) - 1) : values[i] < values[i + 1]
         /\ run.progress = IF values = <<>> THEN 0 ELSE values[Len(values)]
         /\ completed => values # <<>> /\ values[Len(values)] = 100

\* A three-step agent has completed: its values are 33, 67, 100.
C11_Witness ==
  \E s \in Streams : Live(s) /\ \E k \in 1..Len(execs[s].job.agents) :
    /\ execs[s].job.agents[k].status = "completed"
    /\ ProgressValues(streams[s].events, execs[s].job.agents[k].id) = <<33, 67, 100>>

\* ------------------------------------------------------------------ C12
\* C12: in every state of a job record an AgentRun has progress 100 only
\* if its status is 'completed'; a 'failed' AgentRun holds the progress and
\* the logs of the steps that succeeded before the failing step, and no
\* step changes it again.
C12_FailedRunFrozen ==
  [][\A s \in 1..Len(execs') : \A k \in 1..Len(execs'[s].job.agents) :
       LET run == execs'[s].job.agents[k]
           steps == execs'[s].agents[k].steps
       IN /\ run.progress = 100 => run.status = "completed"
          /\ run.status = "failed" =>
               /\ Len(run.logs) = execs'[s].step - 1
               /\ \A i \in 1..Len(run.logs) : run.logs[i].step = i
               /\ run.progress = IF run.logs = <<>> THEN 0 ELSE Progress(Len(run.logs), steps)
          /\ (s <= Len(execs) /\ k <= Len(execs[s].job.agents)
                /\ execs[s].job.agents[k].status = "failed")
               => run = execs[s].job.agents[k]]_vars

\* An AgentRun failed at its last step, after progress 67, while another
\* invocation is still running.
C12_Witness ==
  \E s, t \in Streams :
    /\ execs[t].pc = "await"
    /\ \E k \in 1..Len(execs[s].job.agents) :
         /\ execs[s].job.agents[k].status = "failed"
         /\ execs[s].job.agents[k].progress = 67

\* ------------------------------------------------------------------ C13
\* The summary line of a planned agent.
PlannedLine(agent) == [name |-> agent.name, role |-> agent.role]

\* C13: a job record's result is non-null exactly when its status is
\* 'completed' (so never for an 'error' job); it is assigned once, when
\* every planned agent has a 'completed' AgentRun, and its synthesized
\* summary has one line per AgentRun, in plan order.
C13_ResultOnlyOnSuccess ==
  [][\A s \in 1..Len(execs') :
       LET job == execs'[s].job
       IN Live(s)' =>
            /\ job.result # <<>> <=> job.status = "completed"
            /\ job.result # <<>> =>
                 /\ Len(job.agents) = Len(execs'[s].agents)
                 /\ \A k \in 1..Len(job.agents) : job.agents[k].status = "completed"
                 /\ job.result[1].synthesizedSummary =
                      [k \in 1..Len(execs'[s].agents) |-> PlannedLine(execs'[s].agents[k])]
            /\ (s <= Len(execs) /\ execs[s].job.result # <<>>) => job.result = execs[s].job.result]_vars

\* One job has its result and another has ended in error.
C13_Witness ==
  \E s, t \in Streams :
    /\ execs[s].job.status = "completed" /\ execs[s].job.result # <<>>
    /\ execs[t].job.status = "error"


\* ------------------------------------------------------------------ C17
\* The step writes on stream s or changes invocation s.
IsStepOf(s) == s <= Len(streams) /\ (streams'[s] # streams[s] \/ execs'[s] # execs[s])

\* C17: a step of the execution of one job id (including the stream open
\* that inserts its record) writes events on its own stream only and
\* leaves every other invocation, and the registry record of every other
\* job id, unchanged.
C17_OtherJobsUnchanged ==
  [][/\ \A s \in 1..Len(streams) :
          IsStepOf(s) =>
            /\ Len(streams') = Len(streams)
            /\ \A t \in 1..Len(streams) : t # s => streams'[t] = streams[t] /\ execs'[t] = execs[t]
            /\ \A id \in JobIds : id # streams[s].jobId => jobs'[id] = jobs[id] /\ StatusOf(id)' = StatusOf(id)
     /\ \A id \in JobIds :
          IsStreamOpenOn(id) =>
            /\ \A t \in 1..Len(streams) : streams'[t] = streams[t] /\ execs'[t] = execs[t]
            /\ \A other \in JobIds : other # id => jobs'[other] = jobs[other]]_vars

\* The executions of two distinct job ids are both under way.
C17_Witness ==
  \E s, t \in Streams :
    /\ streams[s].jobId # streams[t].jobId
    /\ execs[s].pc = "await" /\ execs[t].pc = "await"
    /\ Len(execs[s].job.agents) >= 2 /\ Len(execs[t].job.agents) >= 2
    /\ Has(streams[s].jobId) /\ Has(streams[t].jobId)

\* ------------------------------------------------------------------ C19
\* C19: within one execution the AgentRun list is a prefix of the plan, in
\* plan order; every AgentRun before the last is 'completed', so at most
\* one is 'running' and it is the last; and the agent-start of the k-th
\* planned agent is written after the agent-complete of the k-1 agents
\* before it.
C19_AgentsSequential ==
  \A s \in Streams :
    Live(s) =>
      LET runs == execs[s].job.agents
          events == streams[s].events
      IN /\ Len(runs) <= Len(execs[s].agents)
         /\ \A k \in 1..Len(runs) : runs[k].id = execs[s].agents[k].id
         /\ \A k \in 1..(Len(runs) - 1) : runs[k].status = "completed"
         /\ \A k \in 1..Len(runs) : runs[k].status = "running" => k = Len(runs)
         /\ \A i \in Positions(events, {"agent-start"}) :
              LET k == Cardinality({j \in 1..i : events[j].event = "agent-start"})
              IN /\ events[i].data.agent.id = execs[s].agents[k].id
                 /\ {events[j].data.id : j \in {j \in 1..i : events[j].event = "agent-complete"}}
                      = {execs[s].agents[j].id : j \in 1..(k - 1)}

\* An execution is at its third agent, the first two being 'completed'.
C19_Witness ==
  \E s \in Streams :
    /\ Live(s) /\ Len(execs[s].job.agents) = 3
    /\ execs[s].job.agents[3].status = "running"
    /\ execs[s].job.agents[1].status = "completed"

\* ------------------------------------------------------------------ C20
\* C20: a stream opened on a job id whose record is 'completed' starts no
\* executeJob invocation: it writes the replay sequence built from the
\* stored record and ends the stream in the same step, leaving the registry
\* and every invocation unchanged; a 'completed' record stays the record of
\* its id, so every later stream open on that id is a replay.
C20_CompletedIsReplayed ==
  [][\A id \in JobIds :
       StatusOf(id) = "completed" =>
         /\ jobs'[id] = jobs[id] /\ Get(id)' = Get(id)
         /\ IsStreamOpenOn(id) =>
              /\ jobs' = jobs
              /\ \A t \in 1..Len(streams) : streams'[t] = streams[t] /\ execs'[t] = execs[t]
              /\ execs'[Len(streams')].pc = "none"
              /\ streams'[Len(streams')].ended
              /\ Len(streams'[Len(streams')].events) = 3 * Len(Get(id).agents) + 3
              /\ \A i \in 1..Len(Get(id).agents) :
                   /\ streams'[Len(streams')].events[3 * i].data.agent.id = Get(id).agents[i].id
                   /\ streams'[Len(streams')].events[3 * i + 2].data.output = Get(id).agents[i].output
              /\ streams'[Len(streams')].events[Len(streams'[Len(streams')].events)].data.result
                   = Get(id).result]_vars

\* A completed job has been replayed on a later stream.
C20_Witness ==
  \E s, t \in Streams :
    /\ s < t /\ streams[s].jobId = streams[t].jobId
    /\ execs[s].job.status = "completed" /\ jobs[streams[s].jobId] = s
    /\ IsReplayStream(t) /\ streams[t].ended


\* ------------------------------------------------------------------ C14
BaselineIds == <<"planner", "researcher", "analyst", "visualizer", "editor">>
AgentIds(agents) == [i \in 1..Len(agents) |-> agents[i].id]
IsBaseline(id) == \E i \in 1..Len(BaselineIds) : BaselineIds[i] = id
Occurrences(ids, id) == {i \in 1..Len(ids) : ids[i] = id}

\* The plan has the five baseline agents in their order, the engineer iff
\* eng and then between researcher and analyst, the finance agent iff fin
\* and then first.
PlanAsClaimed(ids, eng, fin) ==
  /\ SelectSeq(ids, IsBaseline) = BaselineIds
  /\ Len(ids) = Len(BaselineIds) + (IF eng THEN 1 ELSE 0) + (IF fin THEN 1 ELSE 0)
  /\ Occurrences(ids, "engineer") # {} <=> eng
  /\ \A p \in Occurrences(ids, "engineer") :
       /\ p > 1 /\ ids[p - 1] = "researcher"
       /\ p < Len(ids) /\ ids[p + 1] = "analyst"
  /\ Occurrences(ids, "finance") # {} <=> fin
  /\ \A p \in Occurrences(ids, "finance") : p = 1

\* C14: for every request text, planAgents returns the five baseline
\* agents in their relative order; an engineer agent iff the lower-cased
\* text contains 'code' or 'api', immediately after researcher and before
\* analyst; a finance agent iff it contains 'financial' or 'quarter',
\* first; with both, the engineer is still immediately after researcher.
C14_PlanOrder ==
  \A s \in Streams :
    Live(s) => \A ws \in WordSeqs :
      Join(ws) = execs[s].requestText =>
        PlanAsClaimed(AgentIds(execs[s].agents),
                      \E i \in 1..Len(ws) : ws[i].eng,
                      \E i \in 1..Len(ws) : ws[i].fin)

\* A plan with both insertions, made for a text with an upper-case keyword.
C14_Witness ==
  \E s \in Streams :
    /\ execs[s].requestText = <<"A", "P", "I", " ", "q", "u", "a", "r", "t", "e", "r", "s">>
    /\ AgentIds(execs[s].agents)
         = <<"finance", "planner", "researcher", "engineer", "analyst", "visualizer", "editor">>


\* ------------------------------------------------------------------ C15
\* What the resumed invocation s would do with its subscriber attached.
ResumedAttached(s) ==
  {ExecuteJobResume(Ctx([streams[s] EXCEPT !.closed = FALSE], execs[s]), random).exec :
     random \in RandomDraws}

\* C15: closing the subscriber's transport changes neither the registry
\* nor any invocation, an invocation whose transport is closed goes on
\* with the updates it would make with the subscriber attached, and, every
\* pending delay resolving, the job record of every started invocation
\* eventually has status 'completed' or 'error'.
C15_CloseDoesNotInterrupt ==
  /\ [][\A s \in 1..Len(streams) :
          /\ (streams'[s].closed /\ ~streams[s].closed) =>
               /\ jobs' = jobs /\ execs' = execs
               /\ streams'[s].events = streams[s].events /\ streams'[s].ended = streams[s].ended
          /\ (streams[s].closed /\ execs'[s] # execs[s]) => execs'[s] \in ResumedAttached(s)]_vars
  /\ \A s \in 1..MaxStreams :
       (s <= Len(streams) /\ execs[s].pc = "await")
         ~> (s <= Len(streams) /\ execs[s].job.status \in TerminalStatus)

\* A job completed, with its result, on a transport closed before its
\* second agent started.
C15_Witness ==
  \E s \in Streams :
    /\ streams[s].closed /\ execs[s].job.status = "completed" /\ execs[s].job.result # <<>>
    /\ jobs[streams[s].jobId] = s


\* ------------------------------------------------------------------ C16
\* The invocations in which an exception was thrown.
Thrown == {s \in Streams : execs[s].pc = "thrown"}

\* C16: when an exception is thrown inside executeJob, the stream carries
\* exactly one job-error event, the one of the handler, it is the last event
\* and the stream is ended, and the status of the job record the
\* invocation registered is no longer 'running'.
C16_FaultIsTerminal ==
  \A s \in Thrown :
    /\ Count(streams[s].events, "job-error") = 1
    /\ streams[s].events[Len(streams[s].events)] = [event |-> "job-error", data |-> [message |-> [thrown |-> TRUE]]]
    /\ streams[s].ended
    /\ execs[s].job.status # "running"

\* The part of C16 the handler does provide: one job-error event, last on
\* the stream, and the stream ended.
C16_FaultSurfaced ==
  \A s \in Thrown :
    /\ TerminalIsLast(streams[s])
    /\ streams[s].events[Len(streams[s].events)].event = "job-error"


\* ------------------------------------------------------------------ C18
Sources == 1..Len(sources)

\* The EventSource has dispatched a job-complete or job-error event.
HandledTerminal(src) ==
  /\ sources[src].stream # NoStream /\ sources[src].delivered > 0
  /\ streams[sources[src].stream].events[sources[src].delivered].event \in TerminalEvents

\* C18: an EventSource that has handled job-complete or job-error is
\* closed; a closed EventSource never changes again (it dispatches no
\* further event and sends no further request); connectSSE leaves every
\* EventSource created before closed; and at most one EventSource is not
\* closed at any time.
C18_ClientStopsAtTerminal ==
  /\ [](\A src \in Sources : HandledTerminal(src) => sources[src].readyState = "closed")
  /\ [][\A src \in Sources :
          sources[src].readyState = "closed" => sources'[src] = sources[src]]_vars
  /\ [][Len(sources') > Len(sources) =>
          \A src \in Sources : sources'[src].readyState = "closed"]_vars
  /\ [](Cardinality({src \in Sources : sources[src].readyState # "closed"}) <= 1)

\* The first EventSource was closed by connectSSE in the middle of its
\* stream, and the second has handled job-error and is closed, with events
\* of the first stream left undelivered.
C18_Witness ==
  /\ Len(sources) = 2
  /\ sources[1].readyState = "closed" /\ sources[1].stream # NoStream /\ ~HandledTerminal(1)
  /\ sources[1].delivered > 0
  /\ sources[1].delivered < Len(streams[sources[1].stream].events)
  /\ sources[2].readyState = "closed" /\ HandledTerminal(2)
  /\ streams[sources[2].stream].events[sources[2].delivered].event = "job-error"

====
